---- MODULE Spec2Model ----
(***************************************************************************)
(* A model of mapepire-js: the SQLJob session with its request             *)
(* multiplexer (src/src/sqlJob.ts), the Query life cycle                   *)
(* (src/src/query.ts) and the Pool (src/src/pool.ts, lines 1-163).         *)
(*                                                                         *)
(* JavaScript runs one task at a time.  An action of this model is one     *)
(* task: a call made by the application, or one event of a socket (open,   *)
(* error, close, message) together with the promise continuations that     *)
(* the event resumes, which run as microtasks before any other event.      *)
(*                                                                         *)
(* Methods are written as operators from a heap (a record holding the      *)
(* whole program state) to the heap after the call; an action applies one  *)
(* of them to the current state and stores the result.                     *)
(***************************************************************************)
EXTENDS Integers, Sequences, FiniteSets, TLC

\* ---------------------------------------------------------------- bounds
MaxPoolSize == 2    \* largest maxSize / startingSize a Pool is configured with
MaxSessions == 2    \* SQLJob objects constructed in one behaviour (Pool specification)
MaxIds == 5         \* cap on SQLJob.uniqueIdCounter
MaxQueries == 2     \* Query objects constructed in one behaviour
MaxSockets == 2     \* connect() calls on one Session (Session specification)
MaxLoadIds == 8     \* cap on SQLJob.uniqueIdCounter (load specification)
MaxExecutes == 4    \* Pool.execute() calls in one behaviour (load specification)
MaxParams == 2      \* longest parameter list, and the number of parameter values
MaxBurstSessions == 3  \* SQLJob objects constructed in one behaviour (burst specification)
MaxBurstIds == 8    \* cap on SQLJob.uniqueIdCounter (burst specification)
MaxCleanupIds == 7  \* cap on SQLJob.uniqueIdCounter (cleanup specification)

\* ------------------------------------------------------------- constants
\* JobStatus (states.ts)
NOT_STARTED == "notStarted"
CONNECTING == "connecting"
READY == "ready"
BUSY == "busy"
ENDED == "ended"

\* QueryState (query.ts)
NOT_YET_RUN == 1
RUN_MORE_DATA_AVAILABLE == 2
RUN_DONE == 3
ERROR == 4

\* Query.rowsToFetch initial value
DefaultRows == 100

\* pool.ts: const INVALID_STATES
INVALID_STATES == {ENDED, NOT_STARTED}

VARIABLES
  uniqueIdCounter,   \* SQLJob.uniqueIdCounter
  sessions,          \* every SQLJob constructed, in construction order
  sockets,           \* every WebSocket created by getChannel
  jobs,              \* Pool.jobs: indices into sessions
  options,           \* Pool.options: maxSize, startingSize
  queries,           \* every Query constructed
  globalQueryList,   \* Query.globalQueryList: indices into queries
  cleanups,          \* Query.cleanup() passes awaiting their close() promises
  wire,              \* requests the daemon has received and not yet answered
  calls,             \* calls the application awaits, and how they settled
  lastOp             \* the task that ran last: what was called, and its outcome

vars == <<uniqueIdCounter, sessions, sockets, jobs, options, queries,
          globalQueryList, cleanups, wire, calls, lastOp>>

\* What a call returns when it does not return a response of the daemon
NoResult == [id |-> "", success |-> FALSE, is_done |-> FALSE]

\* The current program state as a heap.  out/ret/made are the outcome of the
\* call being run: the error it threw ("ok" if none), the Session it
\* returned (0 if none) and the number of Sessions it constructed; arg is
\* the id of the frame a message event delivers, result the response that
\* Query.execute() returned to its caller.
Cur ==
  [counter |-> uniqueIdCounter, sessions |-> sessions, sockets |-> sockets,
   jobs |-> jobs, options |-> options, queries |-> queries,
   registry |-> globalQueryList, cleanups |-> cleanups, wire |-> wire,
   calls |-> calls, out |-> "ok", ret |-> 0, made |-> 0, sent |-> "", arg |-> "",
   result |-> NoResult]

Commit(h, op, who) ==
  /\ uniqueIdCounter' = h.counter
  /\ sessions' = h.sessions
  /\ sockets' = h.sockets
  /\ jobs' = h.jobs
  /\ options' = h.options
  /\ queries' = h.queries
  /\ globalQueryList' = h.registry
  /\ cleanups' = h.cleanups
  /\ wire' = h.wire
  /\ calls' = h.calls
  /\ lastOp' = [op |-> op, who |-> who, arg |-> h.arg, outcome |-> h.out,
                ret |-> h.ret, made |-> h.made, result |-> h.result]

Throw(h, msg) == [h EXCEPT !.out = msg]

NoCont == [kind |-> "", q |-> 0, call |-> 0, via |-> ""]

\* ------------------------------------------------------------ SQLJob
\* An id made of the counter as it is, before it is advanced
getNewUniqueIdStale(h, prefix) == prefix \o ToString(h.counter)

\* SQLJob.getNewUniqueId: prefix + ++uniqueIdCounter
getNewUniqueId(h, prefix) == prefix \o ToString(h.counter + 1)

Tick(h) == [h EXCEPT !.counter = @ + 1]

\* new SQLJob(): the field initialisers
NewSQLJob(h) ==
  [Tick(h) EXCEPT !.sessions = Append(@,
     [uniqueId |-> getNewUniqueId(h, "sqljob"), status |-> NOT_STARTED,
      socket |-> 0, listeners |-> {}]),
     !.made = @ + 1]

\* getRunningCount: responseEmitter.eventNames().length
getRunningCount(h, j) == Cardinality({l.id : l \in h.sessions[j].listeners})

getStatus(h, j) ==
  IF getRunningCount(h, j) > 0 THEN BUSY ELSE h.sessions[j].status

\* A close() that throws on a socket that is already closing or closed
SocketCloseOnce(h, k) ==
  IF h.sockets[k].state \in {"connecting", "open"}
  THEN [h EXCEPT !.sockets[k].state = "closing"]
  ELSE Throw(h, "WebSocket is not open")

\* WebSocket.close(): an open socket starts its closing handshake; the close
\* event follows as a task of its own.
SocketClose(h, k) ==
  IF h.sockets[k].state \in {"connecting", "open"}
  THEN [h EXCEPT !.sockets[k].state = "closing"]
  ELSE h

\* dispose() that drops the listeners of the requests in flight as well
disposeAborting(h, j) ==
  LET k == h.sessions[j].socket
      h1 == IF k # 0 THEN SocketClose(h, k) ELSE h
  IN [h1 EXCEPT !.sessions[j].status = ENDED, !.sessions[j].listeners = {}]

dispose(h, j) ==
  LET k == h.sessions[j].socket
      h1 == IF k # 0 THEN SocketClose(h, k) ELSE h
  IN [h1 EXCEPT !.sessions[j].status = ENDED]

\* send(): socket.send(content), then the one-shot listener on req.id.
\* this.socket is undefined before the first channel has opened: the call
\* throws before a listener is registered.  ws drops, without throwing, data
\* sent on a socket that is closing or closed.
send(h, j, id, type, cont) ==
  LET k == h.sessions[j].socket IN
  IF k = 0 THEN Throw(h, "TypeError")
  ELSE [h EXCEPT
          !.wire = IF h.sockets[k].state = "open"
                   THEN @ \cup {[sock |-> k, id |-> id, type |-> type]}
                   ELSE @,
          !.sessions[j].listeners = @ \cup {[id |-> id] @@ cont},
          !.sent = id]

\* db2Server.ca: a certificate, of which the subject and the issuer matter,
\* or undefined
NoCa == [given |-> FALSE, subject |-> "", issuer |-> ""]

\* The certificate is its own issuer's
rejectUnlessCaSelfIssued(db2Server) ==
  ~(db2Server.ca.given /\ db2Server.ca.subject = db2Server.ca.issuer)

\* getChannel(): the rejectUnauthorized option it computes for the WebSocket
rejectUnauthorized(db2Server) ==
  IF db2Server.ca.given
  THEN db2Server.ca.subject = db2Server.ca.issuer
  ELSE TRUE

\* getChannel(): new WebSocket(url, {ca, rejectUnauthorized, ...})
getChannel(h, j, db2Server) ==
  [h EXCEPT !.sockets = Append(@,
     [job |-> j, state |-> "connecting", ca |-> db2Server.ca,
      rejectUnauthorized |-> rejectUnauthorized(db2Server)])]

\* connect() that leaves the status as it is until the channel has opened
connectToUnmarked(h, j, db2Server) == getChannel(h, j, db2Server)

\* connect(db2Server), up to its first await: status, and the socket
\* getChannel opens
connectTo(h, j, db2Server) ==
  getChannel([h EXCEPT !.sessions[j].status = CONNECTING], j, db2Server)

\* connect() to a server for which no CA is configured
connect(h, j) == connectTo(h, j, [ca |-> NoCa])

\* connect(), resumed by the open event of the socket k it is waiting for
connectOpened(h, k) ==
  LET j == h.sockets[k].job
      h1 == [h EXCEPT !.sockets[k].state = "open", !.sessions[j].socket = k]
  IN send(Tick(h1), j, getNewUniqueId(h1, "id"), "connect",
          [NoCont EXCEPT !.kind = "connect"])

\* The calls that await addJob(), which awaits connect() on its new Session
Acquiring == {"waitForJob", "popJob"}

\* connect() on Session j has returned or thrown: addJob() and its caller
\* resume with the same outcome
settle(h, j, how) ==
  [h EXCEPT !.calls =
     [c \in DOMAIN @ |->
        IF @[c].op \in Acquiring /\ @[c].job = j /\ @[c].settled = "pending"
        THEN [@[c] EXCEPT !.settled = how]
        ELSE @[c]]]

\* connect(), resumed by the response to its connect request
connectResponse(h, j, msg) ==
  IF msg.success
  THEN settle([h EXCEPT !.sessions[j].status = READY], j, "resolved")
  ELSE Throw(settle([dispose(h, j) EXCEPT !.sessions[j].status = NOT_STARTED],
                    j, "rejected"),
             "Failed to connect to server.")

\* getVersion(), up to its await
getVersion(h, j) ==
  LET c == Len(h.calls) + 1
      id == getNewUniqueId(h, "id")
      h1 == [Tick(h) EXCEPT !.calls = Append(@,
               [op |-> "getVersion", job |-> j, reqId |-> id,
                settled |-> "pending", response |-> ""])]
      h2 == send(h1, j, id, "getversion",
                 [NoCont EXCEPT !.kind = "getversion", !.call = c])
  IN IF h2.out # "ok" THEN [h2 EXCEPT !.calls[c].settled = "rejected"] ELSE h2

\* getVersion(), resumed by the response
getVersionResponse(h, c, msg) ==
  [h EXCEPT !.calls[c].settled = IF msg.success THEN "resolved" ELSE "rejected",
            !.calls[c].response = msg.id]

\* ------------------------------------------------------------- Query
\* opts.parameters: a list, or undefined
NoParameters == [given |-> FALSE, list |-> <<>>]

\* A constructor for which an empty list of parameters is no parameters
NewQueryIfAny(h, j, opts) ==
  [h EXCEPT !.queries = Append(@,
              [job |-> j, isCLCommand |-> opts.isClCommand,
               isPrepared |-> opts.parameters.given /\ opts.parameters.list # <<>>,
               parameters |-> opts.parameters, state |-> NOT_YET_RUN,
               correlationId |-> "", rowsToFetch |-> DefaultRows]),
            !.registry = Append(@, Len(h.queries) + 1)]

\* new Query(job, sql, opts)
NewQueryOpts(h, j, opts) ==
  [h EXCEPT !.queries = Append(@,
              [job |-> j, isCLCommand |-> opts.isClCommand,
               isPrepared |-> opts.parameters.given,
               parameters |-> opts.parameters, state |-> NOT_YET_RUN,
               correlationId |-> "", rowsToFetch |-> DefaultRows]),
            !.registry = Append(@, Len(h.queries) + 1)]

\* new Query(job, sql, {isClCommand}): no parameters
NewQuery(h, j, isCL) ==
  NewQueryOpts(h, j, [isClCommand |-> isCL, parameters |-> NoParameters])

\* Query.byId(id): the first registry entry with that correlation id, 0 for
\* undefined
byId(h, id) ==
  LET hits == SelectSeq(h.registry, LAMBDA q : h.queries[q].correlationId = id)
  IN IF id = "" \/ hits = <<>> THEN 0 ELSE Head(hits)

\* The rowsToFetch argument: a number, something that is not a number, or
\* omitted (the parameter's default is this.rowsToFetch).
RowsArgs ==
  {[given |-> FALSE, isNumber |-> TRUE, n |-> 0],
   [given |-> TRUE, isNumber |-> FALSE, n |-> 0],
   [given |-> TRUE, isNumber |-> TRUE, n |-> 0],
   [given |-> TRUE, isNumber |-> TRUE, n |-> 1]}

\* fetchMore() is called with a positive number or with nothing
FetchArgs == {r \in RowsArgs : r.isNumber /\ (r.given => r.n > 0)}

RowsOf(h, q, rows) == IF rows.given THEN rows.n ELSE h.queries[q].rowsToFetch

\* The fields of the request object with the given id besides id and type
requestFields(h, id, fields) ==
  [h EXCEPT !.wire = {IF r.id = id THEN r @@ fields ELSE r : r \in @}]

\* Query.execute(): the request object it builds and sends
executeRequest(h, q, rows, via) ==
  LET Q == h.queries[q]
      id == getNewUniqueId(h, IF Q.isCLCommand THEN "clcommand" ELSE "query")
      h1 == [Tick(h) EXCEPT !.queries[q].rowsToFetch = RowsOf(h, q, rows)]
      cont == [NoCont EXCEPT !.kind = "execute", !.q = q, !.via = via]
  IN IF Q.isCLCommand
     THEN send(h1, Q.job, id, "cl", cont)
     ELSE requestFields(
            send(h1, Q.job, id,
                 IF Q.isPrepared THEN "prepare_sql_execute" ELSE "sql", cont),
            id, [parameters |-> Q.parameters])

\* execute() without the switch on this.state
executeUnguarded(h, q, rows, via) ==
  LET Q == h.queries[q] IN
  IF rows.given /\ ~rows.isNumber THEN Throw(h, "rowsToFetch must be a number")
  ELSE IF RowsOf(h, q, rows) <= 0 THEN Throw(h, "rowsToFetch must be greater than 0")
  ELSE executeRequest(h, q, rows, via)

\* execute() that stores the row count before it has checked it
executeRowsFirst(h, q, rows, via) ==
  LET Q == h.queries[q]
      h0 == [h EXCEPT !.queries[q].rowsToFetch = RowsOf(h, q, rows)]
  IN
  IF rows.given /\ ~rows.isNumber THEN Throw(h0, "rowsToFetch must be a number")
  ELSE IF RowsOf(h, q, rows) <= 0 THEN Throw(h0, "rowsToFetch must be greater than 0")
  ELSE IF Q.state = RUN_MORE_DATA_AVAILABLE THEN Throw(h, "Statement has already been run")
  ELSE IF Q.state = RUN_DONE THEN Throw(h, "Statement has already been fully run")
  ELSE executeRequest(h, q, rows, via)

\* Query.execute(), up to its await.  via names the caller that awaits it:
\* "" the application, "sessionExecute" SQLJob.execute().
execute(h, q, rows, via) ==
  LET Q == h.queries[q] IN
  IF rows.given /\ ~rows.isNumber THEN Throw(h, "rowsToFetch must be a number")
  ELSE IF RowsOf(h, q, rows) <= 0 THEN Throw(h, "rowsToFetch must be greater than 0")
  ELSE IF Q.state = RUN_MORE_DATA_AVAILABLE THEN Throw(h, "Statement has already been run")
  ELSE IF Q.state = RUN_DONE THEN Throw(h, "Statement has already been fully run")
  ELSE executeRequest(h, q, rows, via)

\* An execute() that takes no notice of is_done
executeResponseAllDone(h, q, msg) ==
  IF ~msg.success /\ ~h.queries[q].isCLCommand
  THEN Throw([h EXCEPT !.queries[q].state = ERROR], "Failed to run query")
  ELSE [h EXCEPT !.queries[q].state = RUN_DONE,
                 !.queries[q].correlationId = msg.id, !.result = msg]

\* An execute() that raises the failure of a CL command as well
executeResponseStrict(h, q, msg) ==
  LET h1 == [h EXCEPT !.queries[q].state =
               IF msg.is_done THEN RUN_DONE ELSE RUN_MORE_DATA_AVAILABLE]
  IN IF ~msg.success
     THEN Throw([h1 EXCEPT !.queries[q].state = ERROR], "Failed to run query")
     ELSE [h1 EXCEPT !.queries[q].correlationId = msg.id, !.result = msg]

\* Query.execute(), resumed by the response
executeResponse(h, q, msg) ==
  LET h1 == [h EXCEPT !.queries[q].state =
               IF msg.is_done THEN RUN_DONE ELSE RUN_MORE_DATA_AVAILABLE]
  IN IF ~msg.success /\ ~h.queries[q].isCLCommand
     THEN Throw([h1 EXCEPT !.queries[q].state = ERROR], "Failed to run query")
     ELSE [h1 EXCEPT !.queries[q].correlationId = msg.id, !.result = msg]

\* fetchMore() without the switch on this.state
fetchMoreUnguarded(h, q, rows) ==
  LET Q == h.queries[q]
      id == getNewUniqueId(h, "fetchMore")
      h1 == [Tick(h) EXCEPT !.queries[q].rowsToFetch = RowsOf(h, q, rows)]
  IN requestFields(
       send(h1, Q.job, id, "sqlmore",
            [NoCont EXCEPT !.kind = "fetchMore", !.q = q]),
       id, [cont_id |-> Q.correlationId])

\* Query.fetchMore(), up to its await
fetchMore(h, q, rows) ==
  LET Q == h.queries[q] IN
  IF Q.state = NOT_YET_RUN THEN Throw(h, "Statement has not yet been run")
  ELSE IF Q.state = RUN_DONE THEN Throw(h, "Statement has already been fully run")
  ELSE LET id == getNewUniqueId(h, "fetchMore")
           h1 == [Tick(h) EXCEPT !.queries[q].rowsToFetch = RowsOf(h, q, rows)]
       IN requestFields(
            send(h1, Q.job, id, "sqlmore",
                 [NoCont EXCEPT !.kind = "fetchMore", !.q = q]),
            id, [cont_id |-> Q.correlationId])

\* Query.fetchMore(), resumed by the response
fetchMoreResponse(h, q, msg) ==
  LET h1 == [h EXCEPT !.queries[q].state =
               IF msg.is_done THEN RUN_DONE ELSE RUN_MORE_DATA_AVAILABLE]
  IN IF ~msg.success
     THEN Throw([h1 EXCEPT !.queries[q].state = ERROR], "Failed to run query")
     ELSE h1

\* close() that asks the daemon to close the cursor whatever the state
closeAgain(h, q) ==
  LET Q == h.queries[q]
      h0 == [h EXCEPT !.sent = ""]
  IN
  IF Q.correlationId # ""
  THEN LET id == getNewUniqueId(h0, "sqlclose")
           h1 == [Tick(h0) EXCEPT !.queries[q].state = RUN_DONE]
       IN requestFields(
            send(h1, Q.job, id, "sqlclose",
                 [NoCont EXCEPT !.kind = "sqlclose", !.q = q]),
            id, [cont_id |-> Q.correlationId])
  ELSE [h0 EXCEPT !.queries[q].state = RUN_DONE]

\* close() that leaves the state as it is when it sends its request
closeKeepsState(h, q) ==
  LET Q == h.queries[q]
      h0 == [h EXCEPT !.sent = ""]
  IN
  IF Q.correlationId # "" /\ Q.state # RUN_DONE
  THEN LET id == getNewUniqueId(h0, "sqlclose")
       IN requestFields(
            send(Tick(h0), Q.job, id, "sqlclose",
                 [NoCont EXCEPT !.kind = "sqlclose", !.q = q]),
            id, [cont_id |-> Q.correlationId])
  ELSE IF Q.correlationId = ""
  THEN [h0 EXCEPT !.queries[q].state = RUN_DONE]
  ELSE h0

\* close() that takes the Query out of the registry as well
closeAndForget(h, q) ==
  LET Q == h.queries[q]
      h0 == [h EXCEPT !.sent = "",
                      !.registry = SelectSeq(@, LAMBDA x : x # q)]
  IN
  IF Q.correlationId # "" /\ Q.state # RUN_DONE
  THEN LET id == getNewUniqueId(h0, "sqlclose")
           h1 == [Tick(h0) EXCEPT !.queries[q].state = RUN_DONE]
       IN requestFields(
            send(h1, Q.job, id, "sqlclose",
                 [NoCont EXCEPT !.kind = "sqlclose", !.q = q]),
            id, [cont_id |-> Q.correlationId])
  ELSE IF Q.correlationId = ""
  THEN [h0 EXCEPT !.queries[q].state = RUN_DONE]
  ELSE h0

\* Query.close(): h.sent is the id of the sqlclose request, "" if none was sent
close(h, q) ==
  LET Q == h.queries[q]
      h0 == [h EXCEPT !.sent = ""]
  IN
  IF Q.correlationId # "" /\ Q.state # RUN_DONE
  THEN LET id == getNewUniqueId(h0, "sqlclose")
           h1 == [Tick(h0) EXCEPT !.queries[q].state = RUN_DONE]
       IN requestFields(
            send(h1, Q.job, id, "sqlclose",
                 [NoCont EXCEPT !.kind = "sqlclose", !.q = q]),
            id, [cont_id |-> Q.correlationId])
  ELSE IF Q.correlationId = ""
  THEN [h0 EXCEPT !.queries[q].state = RUN_DONE]
  ELSE h0

\* Query.cleanup(): the filter it applies once every close() has settled
cleanupFilter(h) ==
  [h EXCEPT !.registry =
     SelectSeq(h.registry, LAMBDA q : h.queries[q].state # RUN_DONE)]

\* Query.cleanup(): close() on each registry entry in turn; awaiting collects
\* the ids of the sqlclose requests whose responses Promise.all waits for
RECURSIVE closeEach(_, _, _)
closeEach(h, qs, awaiting) ==
  IF qs = <<>> THEN [h |-> h, awaiting |-> awaiting]
  ELSE LET h1 == close(h, Head(qs))
       IN closeEach(h1, Tail(qs),
                    IF h1.sent # "" THEN awaiting \cup {h1.sent} ELSE awaiting)

\* cleanup() that calls close() on every registry entry
cleanupEvery(h) ==
  LET r == closeEach(h, h.registry, {})
  IN IF r.h.out # "ok" THEN r.h
     ELSE IF r.awaiting = {} THEN cleanupFilter(r.h)
     ELSE [r.h EXCEPT !.cleanups = @ \cup {r.awaiting}]

\* Query.cleanup(), up to its await (and past it when nothing is awaited)
cleanup(h) ==
  LET targets == SelectSeq(h.registry,
                   LAMBDA q : h.queries[q].state \in {RUN_DONE, ERROR})
      r == closeEach(h, targets, {})
  IN IF r.h.out # "ok" THEN r.h
     ELSE IF r.awaiting = {} THEN cleanupFilter(r.h)
     ELSE [r.h EXCEPT !.cleanups = @ \cup {r.awaiting}]

\* The response to a sqlclose request settles a close() promise: a
\* Query.cleanup() pass that was awaiting it as its last one resumes.
closeResponse(h, id) ==
  LET hit == {p \in h.cleanups : id \in p}
      last == {p \in hit : p = {id}}
      h1 == [h EXCEPT !.cleanups = (@ \ hit) \cup {p \ {id} : p \in hit \ last}]
  IN IF last # {} THEN cleanupFilter(h1) ELSE h1

\* SQLJob.query() / SQLJob.clcommand()
query(h, j, isCL) == NewQuery(h, j, isCL)

\* SQLJob.query(sql, opts)
queryOpts(h, j, opts) == NewQueryOpts(h, j, opts)

OmittedRows == [given |-> FALSE, isNumber |-> TRUE, n |-> 0]

\* SQLJob.execute(), up to its first await
sessionExecute(h, j) ==
  LET h1 == query(h, j, FALSE)
  IN execute(h1, Len(h1.queries), OmittedRows, "sessionExecute")

\* -------------------------------------------------------------- Pool
Counted(h) ==
  {i \in DOMAIN h.jobs : getStatus(h, h.jobs[i]) \notin INVALID_STATES}

\* A capacity test that is off by one
hasSpaceUpTo(h) == Cardinality(Counted(h)) <= h.options.maxSize

hasSpace(h) == Cardinality(Counted(h)) < h.options.maxSize

getActiveJobCount(h) ==
  Cardinality({i \in DOMAIN h.jobs : getStatus(h, h.jobs[i]) \in {BUSY, READY}})

\* Pool.cleanup()
poolCleanup(h) ==
  [h EXCEPT !.jobs =
     SelectSeq(h.jobs, LAMBDA j : getStatus(h, j) \notin INVALID_STATES)]

\* addJob(), up to its await; h.ret is the new Session.  The Pool never passes
\* existingJob, so newSqlJob is always a new SQLJob.
addJob(h, poolIgnore) ==
  LET h1 == NewSQLJob(h)
      j == Len(h1.sessions)
      h2 == IF ~poolIgnore THEN [h1 EXCEPT !.jobs = Append(@, j)] ELSE h1
      h3 == IF getStatus(h2, j) = NOT_STARTED THEN connect(h2, j) ELSE h2
  IN [h3 EXCEPT !.ret = j]

\* jobs.findIndex(READY): 0 stands for -1 / undefined
getReadyJobIndex(h) ==
  LET ready == {i \in DOMAIN h.jobs : getStatus(h, h.jobs[i]) = READY}
  IN IF ready = {} THEN 0 ELSE CHOOSE i \in ready : \A k \in ready : i <= k

getReadyJob(h) ==
  IF getReadyJobIndex(h) = 0 THEN 0 ELSE h.jobs[getReadyJobIndex(h)]

\* A sort that puts an element before the equal ones already placed, so that
\* equal elements come out in reverse order
RECURSIVE insertBefore(_, _, _)
insertBefore(h, s, x) ==
  IF s = <<>> THEN <<x>>
  ELSE IF getRunningCount(h, Head(s)) - getRunningCount(h, x) >= 0
       THEN <<x>> \o s
       ELSE <<Head(s)>> \o insertBefore(h, Tail(s), x)

\* Array.prototype.sort((a, b) => a.getRunningCount() - b.getRunningCount()),
\* a stable sort: x goes after every element that does not compare greater
RECURSIVE insert(_, _, _)
insert(h, s, x) ==
  IF s = <<>> THEN <<x>>
  ELSE IF getRunningCount(h, Head(s)) - getRunningCount(h, x) > 0
       THEN <<x>> \o s
       ELSE <<Head(s)>> \o insert(h, Tail(s), x)

RECURSIVE sortTiesReversed(_, _)
sortTiesReversed(h, s) ==
  IF s = <<>> THEN <<>>
  ELSE insertBefore(h, sortTiesReversed(h, SubSeq(s, 1, Len(s) - 1)), s[Len(s)])

RECURSIVE sort(_, _)
sort(h, s) ==
  IF s = <<>> THEN <<>>
  ELSE insert(h, sort(h, SubSeq(s, 1, Len(s) - 1)), s[Len(s)])

\* The job getJob() falls back to: busyJobs.sort(...)[0], 0 for undefined
freeistJob(h) ==
  LET busyJobs == SelectSeq(h.jobs, LAMBDA j : getStatus(h, j) = BUSY)
      sorted == sort(h, busyJobs)
  IN IF sorted = <<>> THEN 0 ELSE sorted[1]

\* A getJob() that adds a job whenever the pool has space and none is READY
getJobEager(h) ==
  LET job == getReadyJob(h)
      freeist == freeistJob(h)
  IN IF job # 0 THEN [h EXCEPT !.ret = job]
     ELSE IF ~hasSpace(h) THEN [h EXCEPT !.ret = freeist]
     ELSE [addJob(h, FALSE) EXCEPT !.ret = freeist]

\* Pool.getJob(); h.ret is the job returned, 0 for undefined.  With no BUSY
\* job, freeist.getRunningCount() is evaluated, and throws, only when
\* hasSpace() is true.
getJob(h) ==
  LET job == getReadyJob(h)
      freeist == freeistJob(h)
  IN IF job # 0 THEN [h EXCEPT !.ret = job]
     ELSE IF ~hasSpace(h) THEN [h EXCEPT !.ret = freeist]
     ELSE IF freeist = 0 THEN Throw(h, "TypeError")
     ELSE IF getRunningCount(h, freeist) > 2
          THEN [addJob(h, FALSE) EXCEPT !.ret = freeist]
          ELSE [h EXCEPT !.ret = freeist]

\* A waitForJob() that returns its new Session without awaiting addJob()
waitForJobNoWait(h, useNewJob) ==
  LET job == getReadyJob(h)
  IN IF job # 0 THEN [h EXCEPT !.ret = job]
     ELSE IF hasSpace(h) \/ useNewJob
          THEN addJob(h, FALSE)
          ELSE getJob(h)

\* Pool.waitForJob(), up to its await: a promise that is still pending has
\* outcome "awaiting", and h.ret is the Session it will resolve with
waitForJob(h, useNewJob) ==
  LET job == getReadyJob(h)
  IN IF job # 0 THEN [h EXCEPT !.ret = job]
     ELSE IF hasSpace(h) \/ useNewJob
          THEN [addJob(h, FALSE) EXCEPT !.out = "awaiting"]
          ELSE getJob(h)

\* A popJob() whose new Session joins the pool
popJobPooled(h) ==
  LET index == getReadyJobIndex(h)
  IN IF index # 0
     THEN [h EXCEPT !.ret = h.jobs[index],
                    !.jobs = SubSeq(h.jobs, 1, index - 1)
                               \o SubSeq(h.jobs, index + 1, Len(h.jobs))]
     ELSE [addJob(h, FALSE) EXCEPT !.out = "awaiting"]

\* Pool.popJob(), up to its await
popJob(h) ==
  LET index == getReadyJobIndex(h)
  IN IF index # 0
     THEN [h EXCEPT !.ret = h.jobs[index],
                    !.jobs = SubSeq(h.jobs, 1, index - 1)
                               \o SubSeq(h.jobs, index + 1, Len(h.jobs))]
     ELSE [addJob(h, TRUE) EXCEPT !.out = "awaiting"]

RECURSIVE addJobs(_, _)
addJobs(h, n) == IF n <= 0 THEN h ELSE addJobs(addJob(h, FALSE), n - 1)

\* Pool.init(), up to Promise.all
init(h) ==
  IF h.options.maxSize = 0
  THEN Throw(h, "Max size must be greater than 0")
  ELSE IF h.options.startingSize > h.options.maxSize
  THEN Throw(h, "Max size must be greater than starting size")
  ELSE [addJobs(h, h.options.startingSize) EXCEPT !.ret = 0, !.out = "awaiting"]

\* Pool.query(): job.query() on undefined throws
poolQuery(h) ==
  LET h1 == getJob(h)
  IN IF h1.out # "ok" THEN h1
     ELSE IF h1.ret = 0 THEN Throw(h1, "TypeError")
     ELSE query(h1, h1.ret, FALSE)

\* Pool.execute(), up to the await in SQLJob.execute()
poolExecute(h) ==
  LET h1 == getJob(h)
  IN IF h1.out # "ok" THEN h1
     ELSE IF h1.ret = 0 THEN Throw(h1, "TypeError")
     ELSE sessionExecute(h1, h1.ret)

\* Pool.end(): SQLJob.close() on every job of the pool
RECURSIVE disposeAll(_, _)
disposeAll(h, js) ==
  IF js = <<>> THEN h ELSE disposeAll(dispose(h, Head(js)), Tail(js))

\* end() that disposes every Session the pool has ever created
endAll(h) == disposeAll(h, [j \in 1..Len(h.sessions) |-> j])

\* end(): this.jobs.forEach(j => j.dispose())
end(h) == disposeAll(h, h.jobs)

\* ------------------------------------------------- the message handler
\* emit() of one event name for every frame: a listener is called whatever
\* its id
RoutedToAny(h, j, msg) ==
  IF h.sessions[j].listeners = {} THEN {}
  ELSE {CHOOSE l \in h.sessions[j].listeners : TRUE}

\* responseEmitter.emit(response.id, ...): the listeners it calls
Routed(h, j, msg) == {l \in h.sessions[j].listeners : l.id = msg.id}

\* a listener that stays registered after it has been called
keepListeners(h, j, id) == h

\* responseEmitter.removeAllListeners(req.id)
removeAllListeners(h, j, id) ==
  [h EXCEPT !.sessions[j].listeners = {l \in @ : l.id # id}]

\* What the promise of send() resolving resumes
resume(h, j, l, msg) ==
  CASE l.kind = "connect" -> connectResponse(h, j, msg)
    [] l.kind = "getversion" -> getVersionResponse(h, l.call, msg)
    [] l.kind = "execute" ->
         LET h1 == executeResponse(h, l.q, msg)
         IN IF l.via = "sessionExecute" /\ h1.out = "ok"
            THEN close(h1, l.q)
            ELSE h1
    [] l.kind = "fetchMore" -> fetchMoreResponse(h, l.q, msg)
    [] l.kind = "sqlclose" -> closeResponse(h, msg.id)

\* a message handler that calls no listener
messageHandlerDeaf(h, j, msg) == h

\* ws.on("message"): a frame with no listener for its id changes nothing
messageHandler(h, j, msg) ==
  LET ls == Routed(h, j, msg) IN
  IF ls = {} THEN h
  ELSE LET l == CHOOSE x \in ls : TRUE
       IN resume(removeAllListeners(h, j, l.id), j, l, msg)

Message(id, success, is_done) ==
  [id |-> id, success |-> success, is_done |-> is_done]

\* ------------------------------------------------------- initial states
NoOp ==
  [op |-> "new", who |-> 0, arg |-> "", outcome |-> "ok", ret |-> 0, made |-> 0,
   result |-> NoResult]

Empty ==
  /\ uniqueIdCounter = 0
  /\ sessions = <<>>
  /\ sockets = <<>>
  /\ jobs = <<>>
  /\ queries = <<>>
  /\ globalQueryList = <<>>
  /\ cleanups = {}
  /\ wire = {}
  /\ calls = <<>>
  /\ lastOp = NoOp

\* job = new SQLJob(); await job.connect(creds), answered with success
InitSession ==
  /\ uniqueIdCounter = 2
  /\ sessions = <<[uniqueId |-> "sqljob1", status |-> READY, socket |-> 1,
                   listeners |-> {}]>>
  /\ sockets = <<[job |-> 1, state |-> "open", ca |-> NoCa,
                  rejectUnauthorized |-> TRUE]>>
  /\ jobs = <<>>
  /\ options = [maxSize |-> 0, startingSize |-> 0]
  /\ queries = <<>>
  /\ globalQueryList = <<>>
  /\ cleanups = {}
  /\ wire = {}
  /\ calls = <<>>
  /\ lastOp = [NoOp EXCEPT !.op = "connect", !.who = 1]

\* ------------------------------------------------------------- actions
\* Every action is bounded by the cap on the id counter.
Do(h, op, who) == h.counter <= MaxIds /\ Commit(h, op, who)

\* The daemon answers a request it received on a socket that is still open.
Respond(r, success, is_done) ==
  /\ sockets[r.sock].state = "open"
  /\ Do(messageHandler([Cur EXCEPT !.wire = @ \ {r}, !.arg = r.id],
                       sockets[r.sock].job, Message(r.id, success, is_done)),
        "response", sockets[r.sock].job)

\* Any other frame that arrives on the open socket k: one that repeats an
\* answer already given, or one whose id answers no request.
Stray(k, id, success) ==
  /\ sockets[k].state = "open"
  /\ \A r \in wire : r.id # id
  /\ Do(messageHandler([Cur EXCEPT !.arg = id], sockets[k].job,
                       Message(id, success, FALSE)),
        "frame", sockets[k].job)

AppGetVersion(j) == Do(getVersion(Cur, j), "getVersion", j)

AppQuery(j, isCL) ==
  /\ Len(queries) < MaxQueries
  /\ Do(query(Cur, j, isCL), "query", j)

AppExecute(q, rows) == Do(execute(Cur, q, rows, ""), "execute", q)

AppFetchMore(q, rows) == Do(fetchMore(Cur, q, rows), "fetchMore", q)

AppClose(q) == Do(close(Cur, q), "close", q)

AppCleanup == Do(cleanup(Cur), "Query.cleanup", 0)

\* ------------------------------------------- the Query specification
NextQuery ==
  \/ \E isCL \in BOOLEAN : AppQuery(1, isCL)
  \/ \E q \in DOMAIN queries, rows \in RowsArgs : AppExecute(q, rows)
  \/ \E q \in DOMAIN queries, rows \in FetchArgs : AppFetchMore(q, rows)
  \/ \E q \in DOMAIN queries : AppClose(q)
  \/ AppCleanup
  \/ \E r \in wire, success \in BOOLEAN, is_done \in BOOLEAN :
       Respond(r, success, is_done)

SpecQuery == InitSession /\ [][NextQuery]_vars

\* The prefixes the program passes to getNewUniqueId()
Prefixes == {"sqljob", "id", "query", "clcommand", "fetchMore", "sqlclose"}

\* The daemon answers a request it has received.
Answers ==
  \E r \in wire, success \in BOOLEAN, is_done \in BOOLEAN :
    Respond(r, success, is_done)

\* Queries of one Session run with the default rowsToFetch
NextAnswered ==
  \/ \E isCL \in BOOLEAN : AppQuery(1, isCL)
  \/ \E q \in DOMAIN queries : AppExecute(q, OmittedRows)
  \/ \E q \in DOMAIN queries : AppFetchMore(q, OmittedRows)
  \/ \E q \in DOMAIN queries : AppClose(q)
  \/ \E r \in wire, success \in BOOLEAN, is_done \in BOOLEAN :
       Respond(r, success, is_done)

\* The same with a daemon that leaves no request unanswered.
SpecAnswered ==
  InitSession /\ [][NextAnswered]_vars /\ WF_vars(Answers)

\* ------------------------------------------------ events of a socket
\* open: connect() resumes and sends its connect request
OnOpen(h, k) == connectOpened(h, k)

\* An error event that nobody listens to
OnErrorIgnored(h, k) == h

\* error: before the socket is open it rejects getChannel's promise, and
\* connect() with it; afterwards the handler of connect() disposes the job
OnError(h, k) ==
  IF h.sockets[k].state = "connecting"
  THEN Throw(settle([h EXCEPT !.sockets[k].state = "closed"],
                    h.sockets[k].job, "rejected"),
             "connect failed")
  ELSE dispose(h, h.sockets[k].job)

\* close: the handler of connect() disposes the job
OnClose(h, k) ==
  dispose([h EXCEPT !.sockets[k].state = "closed"], h.sockets[k].job)

\* --------------------------------------------- the Pool specification
\* new Pool(options)
InitPool ==
  /\ Empty
  /\ options \in [maxSize : 0..MaxPoolSize, startingSize : 0..MaxPoolSize]

\* The bounds on one behaviour of a Pool
Within(h) == h.counter <= MaxIds /\ Len(h.sessions) <= MaxSessions

PoolInit ==
  /\ Within(init(Cur))
  /\ Commit(init(Cur), "init", 0)

PoolGetJob ==
  /\ Within(getJob(Cur))
  /\ Commit(getJob(Cur), "getJob", 0)

PoolWaitForJob(useNewJob) ==
  /\ Within(waitForJob(Cur, useNewJob))
  /\ Commit(waitForJob(Cur, useNewJob),
            IF useNewJob THEN "waitForJob(true)" ELSE "waitForJob", 0)

PoolPopJob ==
  /\ Within(popJob(Cur))
  /\ Commit(popJob(Cur), "popJob", 0)

PoolQuery ==
  /\ Len(queries) < MaxQueries
  /\ Within(poolQuery(Cur))
  /\ Commit(poolQuery(Cur), "Pool.query", 0)

PoolExecute ==
  /\ Len(queries) < MaxQueries
  /\ Within(poolExecute(Cur))
  /\ Commit(poolExecute(Cur), "Pool.execute", 0)

PoolCleanup == Commit(poolCleanup(Cur), "cleanup", 0)

PoolEnd == Commit(end(Cur), "end", 0)

SocketOpens(k) ==
  /\ sockets[k].state = "connecting"
  /\ Within(OnOpen(Cur, k))
  /\ Commit(OnOpen(Cur, k), "open", k)

SocketFails(k) ==
  /\ sockets[k].state \in {"connecting", "open"}
  /\ Commit(OnError(Cur, k), "error", k)

SocketCloses(k) ==
  /\ sockets[k].state \in {"open", "closing"}
  /\ Commit(OnClose(Cur, k), "close", k)

Delivered(r, success, is_done) ==
  messageHandler([Cur EXCEPT !.wire = @ \ {r}, !.arg = r.id],
                 sockets[r.sock].job, Message(r.id, success, is_done))

Responds(r, success, is_done) ==
  /\ sockets[r.sock].state = "open"
  /\ Within(Delivered(r, success, is_done))
  /\ Commit(Delivered(r, success, is_done), "response", sockets[r.sock].job)

NextPool ==
  \/ PoolInit
  \/ PoolGetJob
  \/ \E useNewJob \in BOOLEAN : PoolWaitForJob(useNewJob)
  \/ PoolPopJob
  \/ PoolQuery
  \/ PoolExecute
  \/ PoolCleanup
  \/ PoolEnd
  \/ \E k \in DOMAIN sockets : SocketOpens(k)
  \/ \E k \in DOMAIN sockets : SocketFails(k)
  \/ \E k \in DOMAIN sockets : SocketCloses(k)
  \/ \E r \in wire, success \in BOOLEAN, is_done \in BOOLEAN :
       Responds(r, success, is_done)

SpecPool == InitPool /\ [][NextPool]_vars

\* ------------------------------------ the job-acquisition specification
\* The promise of a waitForJob() or popJob() that is awaiting addJob()
awaited(h, op) ==
  IF h.out = "awaiting"
  THEN [h EXCEPT !.calls = Append(@,
          [op |-> op, job |-> h.ret, reqId |-> "", settled |-> "pending",
           response |-> ""])]
  ELSE h

AcquireWaitForJob(useNewJob) ==
  /\ Within(waitForJob(Cur, useNewJob))
  /\ Commit(awaited(waitForJob(Cur, useNewJob), "waitForJob"),
            IF useNewJob THEN "waitForJob(true)" ELSE "waitForJob", 0)

AcquirePopJob ==
  /\ Within(popJob(Cur))
  /\ Commit(awaited(popJob(Cur), "popJob"), "popJob", 0)

\* A Pool whose callers take Sessions with waitForJob() and popJob() and
\* await them, beside every other use of the Pool and every channel event
NextAcquire ==
  \/ PoolInit
  \/ \E useNewJob \in BOOLEAN : AcquireWaitForJob(useNewJob)
  \/ AcquirePopJob
  \/ PoolExecute
  \/ PoolCleanup
  \/ PoolEnd
  \/ \E k \in DOMAIN sockets : SocketOpens(k)
  \/ \E k \in DOMAIN sockets : SocketFails(k)
  \/ \E k \in DOMAIN sockets : SocketCloses(k)
  \/ \E r \in wire, success \in BOOLEAN, is_done \in BOOLEAN :
       Responds(r, success, is_done)

SpecAcquire == InitPool /\ [][NextAcquire]_vars

\* ------------------------------------------------ the load specification
\* new Pool(options) with 0 < startingSize <= maxSize
InitLoad ==
  /\ Empty
  /\ options \in {o \in [maxSize : 1..MaxPoolSize, startingSize : 1..MaxPoolSize] :
                    o.startingSize <= o.maxSize}

WithinLoad(h) == h.counter <= MaxLoadIds /\ Len(h.sessions) <= MaxSessions

\* await pool.init() has returned: every starting Session has connected
Initialised(ss, js) ==
  /\ Len(js) >= options.startingSize
  /\ \A i \in 1..options.startingSize : ss[js[i]].status = READY

\* pool.init(), called once on the new Pool
LoadInit ==
  /\ sessions = <<>>
  /\ Commit(init(Cur), "init", 0)

\* pool.execute(sql), called once init() has returned
LoadExecute ==
  /\ Initialised(sessions, jobs)
  /\ Len(queries) < MaxExecutes
  /\ WithinLoad(poolExecute(Cur))
  /\ Commit(poolExecute(Cur), "Pool.execute", 0)

LoadOpens(k) ==
  /\ sockets[k].state = "connecting"
  /\ WithinLoad(OnOpen(Cur, k))
  /\ Commit(OnOpen(Cur, k), "open", k)

\* The daemon answers a request
LoadResponds(r, success, is_done) ==
  /\ sockets[r.sock].state = "open"
  /\ WithinLoad(Delivered(r, success, is_done))
  /\ Commit(Delivered(r, success, is_done), "response", sockets[r.sock].job)

\* A Pool that is initialised and then only asked to execute statements, a
\* daemon that answers, and channels that open and never fail
NextLoad ==
  \/ LoadInit
  \/ LoadExecute
  \/ \E k \in DOMAIN sockets : LoadOpens(k)
  \/ \E r \in wire, success \in BOOLEAN, is_done \in BOOLEAN :
       LoadResponds(r, success, is_done)

SpecLoad == InitLoad /\ [][NextLoad]_vars

\* ------------------------------------------ the Session specification
\* job = new SQLJob()
InitNewSession ==
  /\ uniqueIdCounter = 1
  /\ sessions = <<[uniqueId |-> "sqljob1", status |-> NOT_STARTED, socket |-> 0,
                   listeners |-> {}]>>
  /\ sockets = <<>>
  /\ jobs = <<>>
  /\ options = [maxSize |-> 0, startingSize |-> 0]
  /\ queries = <<>>
  /\ globalQueryList = <<>>
  /\ cleanups = {}
  /\ wire = {}
  /\ calls = <<>>
  /\ lastOp = [NoOp EXCEPT !.who = 1]

\* job.connect(server), up to its await
AppConnect(j) ==
  /\ Len(sockets) < MaxSockets
  /\ Do(connect(Cur, j), "connect", j)

\* job.close()
AppDispose(j) == Do(dispose(Cur, j), "dispose", j)

\* One Session in the hands of the application, which connects it, sends
\* requests on it and closes it at any time and in any order, and the events
\* of every channel the Session has opened.
NextSession ==
  \/ AppConnect(1)
  \/ AppDispose(1)
  \/ AppGetVersion(1)
  \/ \E k \in DOMAIN sockets : SocketOpens(k)
  \/ \E k \in DOMAIN sockets : SocketFails(k)
  \/ \E k \in DOMAIN sockets : SocketCloses(k)
  \/ \E r \in wire, success \in BOOLEAN : Responds(r, success, FALSE)

SpecSession == InitNewSession /\ [][NextSession]_vars

\* -------------------------------------- the multiplexer specification
\* One connected Session, getVersion() calls in flight together, and the
\* frames of the daemon in any order.
Issued == {calls[c].reqId : c \in DOMAIN calls}

NextMux ==
  \/ AppGetVersion(1)
  \/ \E r \in wire, success \in BOOLEAN : Respond(r, success, FALSE)
  \/ \E id \in Issued \cup {"id0"}, success \in BOOLEAN : Stray(1, id, success)

SpecMux == InitSession /\ [][NextMux]_vars

\* ------------------------------------------- the burst specification
WithinBurst(h) ==
  h.counter <= MaxBurstIds /\ Len(h.sessions) <= MaxBurstSessions

\* pool.init(), called once on the new Pool
BurstInit ==
  /\ sessions = <<>>
  /\ Commit(init(Cur), "init", 0)

BurstGetJob ==
  /\ WithinBurst(getJob(Cur))
  /\ Commit(getJob(Cur), "getJob", 0)

BurstExecute ==
  /\ Len(queries) < MaxQueries
  /\ WithinBurst(poolExecute(Cur))
  /\ Commit(poolExecute(Cur), "Pool.execute", 0)

BurstOpens(k) ==
  /\ sockets[k].state = "connecting"
  /\ WithinBurst(OnOpen(Cur, k))
  /\ Commit(OnOpen(Cur, k), "open", k)

BurstResponds(r, success, is_done) ==
  /\ sockets[r.sock].state = "open"
  /\ WithinBurst(Delivered(r, success, is_done))
  /\ Commit(Delivered(r, success, is_done), "response", sockets[r.sock].job)

\* A Pool that is initialised once and then asked for Sessions and to
\* execute statements in any order, with channels that open, fail and close
\* and a daemon that answers at any time
NextBurst ==
  \/ BurstInit
  \/ BurstGetJob
  \/ BurstExecute
  \/ \E k \in DOMAIN sockets : BurstOpens(k)
  \/ \E k \in DOMAIN sockets : SocketFails(k)
  \/ \E k \in DOMAIN sockets : SocketCloses(k)
  \/ \E r \in wire, success \in BOOLEAN, is_done \in BOOLEAN :
       BurstResponds(r, success, is_done)

SpecBurst == InitLoad /\ [][NextBurst]_vars

\* ---------------------------------------- the disposal specification
\* A frame that the daemon sent before it saw the closing handshake: ws
\* emits message events on a socket that close() has put in CLOSING, until
\* the close event.
LateResponds(r, success, is_done) ==
  /\ sockets[r.sock].state = "closing"
  /\ Within(Delivered(r, success, is_done))
  /\ Commit(Delivered(r, success, is_done), "response", sockets[r.sock].job)

\* One Session in the hands of the application, as in the Session
\* specification, with answers that also arrive while a channel is closing
NextDisposal ==
  \/ AppConnect(1)
  \/ AppDispose(1)
  \/ AppGetVersion(1)
  \/ \E k \in DOMAIN sockets : SocketOpens(k)
  \/ \E k \in DOMAIN sockets : SocketFails(k)
  \/ \E k \in DOMAIN sockets : SocketCloses(k)
  \/ \E r \in wire, success \in BOOLEAN : Responds(r, success, FALSE)
  \/ \E r \in wire, success \in BOOLEAN : LateResponds(r, success, FALSE)

SpecDisposal == InitNewSession /\ [][NextDisposal]_vars

\* ----------------------------------------- the cleanup specification
WithinCleanup(h) == h.counter <= MaxCleanupIds

PassQuery ==
  /\ Len(queries) < MaxQueries
  /\ Commit(query(Cur, 1, FALSE), "query", 1)

PassExecute(q) ==
  /\ WithinCleanup(execute(Cur, q, OmittedRows, ""))
  /\ Commit(execute(Cur, q, OmittedRows, ""), "execute", q)

PassFetchMore(q) ==
  /\ WithinCleanup(fetchMore(Cur, q, OmittedRows))
  /\ Commit(fetchMore(Cur, q, OmittedRows), "fetchMore", q)

PassClose(q) ==
  /\ WithinCleanup(close(Cur, q))
  /\ Commit(close(Cur, q), "close", q)

PassCleanup ==
  /\ WithinCleanup(cleanup(Cur))
  /\ Commit(cleanup(Cur), "Query.cleanup", 0)

PassResponds(r, success, is_done) ==
  /\ sockets[r.sock].state = "open"
  /\ Commit(Delivered(r, success, is_done), "response", sockets[r.sock].job)

\* Statements on one connected Session that are run, fetched from and
\* closed while Query.cleanup() passes are under way
NextCleanup ==
  \/ PassQuery
  \/ \E q \in DOMAIN queries : PassExecute(q)
  \/ \E q \in DOMAIN queries : PassFetchMore(q)
  \/ \E q \in DOMAIN queries : PassClose(q)
  \/ PassCleanup
  \/ \E r \in wire, success \in BOOLEAN, is_done \in BOOLEAN :
       PassResponds(r, success, is_done)

SpecCleanup == InitSession /\ [][NextCleanup]_vars

\* ------------------------------------------ the statement specification
\* opts.parameters: undefined, or a list of at most MaxParams values
ParamArgs ==
  {NoParameters} \cup
  {[given |-> TRUE, list |-> l] :
     l \in UNION {[1..n -> 1..MaxParams] : n \in 0..MaxParams}}

QueryOpts == [isClCommand : BOOLEAN, parameters : ParamArgs]

\* job.query(sql, opts)
AppQueryOpts(j, opts) ==
  /\ Len(queries) < MaxQueries
  /\ Do(queryOpts(Cur, j, opts), "query", j)

\* Statements and CL commands constructed with and without parameters on
\* one connected Session, executed, and answered by the daemon
NextStatement ==
  \/ \E opts \in QueryOpts : AppQueryOpts(1, opts)
  \/ \E q \in DOMAIN queries : AppExecute(q, OmittedRows)
  \/ \E r \in wire, success \in BOOLEAN, is_done \in BOOLEAN :
       Respond(r, success, is_done)

SpecStatement == InitSession /\ [][NextStatement]_vars

\* ------------------------------------------- the channel specification
\* The names certificates carry as subject and as issuer
Names == {"CN=server", "CN=root"}

\* db2Server.ca: undefined, or a certificate
CaArgs ==
  {NoCa} \cup {[given |-> TRUE, subject |-> s, issuer |-> i] : s, i \in Names}

\* job.connect(db2Server), up to its await
AppConnectTo(j, db2Server) ==
  /\ Len(sockets) < MaxSockets
  /\ Do(connectTo(Cur, j, db2Server), "connect", j)

\* One Session that the application connects to servers with and without a
\* CA, and closes, and the events of the channels it opens
NextChannel ==
  \/ \E ca \in CaArgs : AppConnectTo(1, [ca |-> ca])
  \/ AppDispose(1)
  \/ \E k \in DOMAIN sockets : SocketOpens(k)
  \/ \E k \in DOMAIN sockets : SocketFails(k)
  \/ \E k \in DOMAIN sockets : SocketCloses(k)
  \/ \E r \in wire, success \in BOOLEAN : Responds(r, success, FALSE)

SpecChannel == InitNewSession /\ [][NextChannel]_vars

\* ------------------------------------------- claims about the multiplexer
\* C2: each send() resolves with the response whose id is the id of the
\* request that call sent, whatever the order the responses arrive in.
C2_RoutedById ==
  \A c \in DOMAIN calls :
    (calls[c].settled # "pending" \/ calls[c].response # "")
      => calls[c].response = calls[c].reqId

\* Two requests in flight together, the second answered before the first
C2_Witness ==
  /\ Len(calls) >= 2
  /\ calls[1].settled = "pending"
  /\ calls[2].settled = "resolved"
  /\ calls[2].response = calls[2].reqId

Waiting(ss, j, id) == \E l \in ss[j].listeners : l.id = id

RunningCount(ss, j) == getRunningCount([sessions |-> ss], j)

Settling == {c \in DOMAIN calls : calls[c].settled = "pending"
                                   /\ calls'[c].settled # "pending"}

\* C3: a frame whose id has a waiter removes that waiter, settles exactly one
\* call and lowers getRunningCount() by one; a frame whose id has no waiter
\* (a repeated answer, an unknown id) changes nothing; a settled call stays
\* as it settled.
C3_AtMostOnce ==
  [][lastOp'.op \in {"response", "frame"} =>
       LET j == lastOp'.who
           id == lastOp'.arg
       IN /\ Waiting(sessions, j, id) =>
               /\ ~Waiting(sessions', j, id)
               /\ RunningCount(sessions', j) = RunningCount(sessions, j) - 1
               /\ Cardinality(Settling) = 1
               /\ \A c \in Settling : calls[c].reqId = id
          /\ ~Waiting(sessions, j, id) =>
               /\ calls' = calls
               /\ sessions' = sessions
          /\ \A c \in DOMAIN calls :
               calls[c].settled # "pending" => calls'[c] = calls[c]]_vars

\* The answer to the first request has just arrived a second time, while the
\* second request is still waiting for its own
C3_Witness ==
  /\ lastOp.op = "frame"
  /\ Len(calls) >= 2
  /\ lastOp.arg = calls[1].reqId
  /\ calls[1].settled = "resolved"
  /\ calls[2].settled = "pending"
  /\ getRunningCount(Cur, 1) = 1

\* ------------------------------------------------ claims about Query
\* The errors that report a misuse by the caller
UsageErrors ==
  {"rowsToFetch must be a number", "rowsToFetch must be greater than 0",
   "Statement has already been run", "Statement has already been fully run",
   "Statement has not yet been run"}

\* A step that sends nothing: no request reaches the daemon, no listener is
\* registered and no id is drawn
SendsNothing ==
  /\ wire' = wire
  /\ sessions' = sessions
  /\ uniqueIdCounter' = uniqueIdCounter

\* C4: execute() on a Query in RUN_MORE_DATA_AVAILABLE or RUN_DONE fails with
\* a usage error, sends no request and leaves the Query's state unchanged.
C4_ExecuteAfterRun ==
  [][(lastOp'.op = "execute"
      /\ queries[lastOp'.who].state \in {RUN_MORE_DATA_AVAILABLE, RUN_DONE})
     => /\ lastOp'.outcome \in UsageErrors
        /\ SendsNothing
        /\ queries' = queries]_vars

\* execute() has just been refused on a Query that had already been run,
\* while a request of another call on the Session is still unanswered
C4_Witness ==
  /\ lastOp.op = "execute"
  /\ lastOp.outcome = "Statement has already been run"
  /\ queries[lastOp.who].state = RUN_MORE_DATA_AVAILABLE
  /\ wire # {}

\* C5: once a Query is in ERROR, execute() and fetchMore() fail with a usage
\* error and send no request.
C5_ErrorRefusesCalls ==
  [][(lastOp'.op \in {"execute", "fetchMore"}
      /\ queries[lastOp'.who].state = ERROR)
     => /\ lastOp'.outcome \in UsageErrors
        /\ SendsNothing]_vars

\* C6: once a Query's state is ERROR, no operation changes it.
C6_ErrorTerminal ==
  [][\A q \in DOMAIN queries :
       queries[q].state = ERROR => queries'[q].state = ERROR]_vars

\* C7: a Query's state never moves backwards in the order NOT_YET_RUN,
\* RUN_MORE_DATA_AVAILABLE, RUN_DONE.
C7_StateMonotonic ==
  [][\A q \in DOMAIN queries :
       (queries[q].state # ERROR /\ queries'[q].state # ERROR)
         => queries'[q].state >= queries[q].state]_vars

\* The execute() requests the daemon has yet to answer, each with the Query
\* that is waiting for the answer
AwaitingExecute ==
  {x \in [r : wire, q : DOMAIN queries] :
     /\ sockets[x.r.sock].state = "open"
     /\ \E l \in sessions[sockets[x.r.sock].job].listeners :
          l.id = x.r.id /\ l.kind = "execute" /\ l.q = x.q /\ l.via = ""}

\* C19: when the response to execute() arrives with success not true and the
\* Query is not a CL command, the state becomes ERROR, an error is raised and
\* the correlation id stays as it was; otherwise the state becomes RUN_DONE if
\* is_done is set and RUN_MORE_DATA_AVAILABLE if not, and the id of the
\* response becomes the correlation id.
C19_ExecuteResponse ==
  \A x \in AwaitingExecute, success \in BOOLEAN, is_done \in BOOLEAN :
    LET h == Delivered(x.r, success, is_done)
        Q == h.queries[x.q]
    IN IF ~success /\ ~queries[x.q].isCLCommand
       THEN /\ Q.state = ERROR
            /\ h.out \notin {"ok", "awaiting"}
            /\ Q.correlationId = queries[x.q].correlationId
       ELSE /\ Q.state = IF is_done THEN RUN_DONE ELSE RUN_MORE_DATA_AVAILABLE
            /\ Q.correlationId = x.r.id
            /\ h.out = "ok"

\* A SQL Query whose execute() has just been answered with a failure
C19_Witness ==
  /\ lastOp.op = "response"
  /\ lastOp.outcome = "Failed to run query"
  /\ \E q \in DOMAIN queries :
       /\ ~queries[q].isCLCommand
       /\ queries[q].state = ERROR
       /\ queries[q].correlationId = ""

\* C20: execute() of a CL command answered with success = false raises no
\* error: it returns the response, records its id as the correlation id and
\* takes the state from is_done alone, never ERROR.
C20_ClFailureReturned ==
  \A x \in AwaitingExecute, is_done \in BOOLEAN :
    queries[x.q].isCLCommand =>
      LET h == Delivered(x.r, FALSE, is_done)
          Q == h.queries[x.q]
      IN /\ h.out = "ok"
         /\ h.result = Message(x.r.id, FALSE, is_done)
         /\ Q.correlationId = x.r.id
         /\ Q.state = IF is_done THEN RUN_DONE ELSE RUN_MORE_DATA_AVAILABLE

\* The execute() of a CL command has just returned a response whose success
\* is false
C20_Witness ==
  /\ lastOp.op = "response"
  /\ lastOp.outcome = "ok"
  /\ lastOp.result.id = lastOp.arg
  /\ ~lastOp.result.success
  /\ lastOp.result.is_done
  /\ \E q \in DOMAIN queries :
       /\ queries[q].isCLCommand
       /\ queries[q].state = RUN_DONE
       /\ queries[q].correlationId = lastOp.arg

\* ------------------------------------------------------- Pool claims
StatusOf(ss, j) == IF RunningCount(ss, j) > 0 THEN BUSY ELSE ss[j].status

\* Positions of the pool's collection whose Session counts against maxSize
Occupied(ss, js) == {i \in DOMAIN js : StatusOf(ss, js[i]) \notin {ENDED, NOT_STARTED}}

\* C1, as the specification states it: the number of Sessions of the pool's
\* collection that are neither ENDED nor NOT_STARTED never exceeds maxSize.
C1_NeverExceedsMaxSize == Cardinality(Occupied(sessions, jobs)) <= options.maxSize

Rejections ==
  {"Max size must be greater than 0", "Max size must be greater than starting size"}

\* C8: init() rejects when maxSize <= 0, when startingSize <= 0 and when
\* startingSize > maxSize, with a message of its own for each case, and
\* creates no Session and adds none to the pool in any of them.
C8_InitRejects ==
  [][(lastOp'.op = "init"
        /\ (options.maxSize <= 0 \/ options.startingSize <= 0
              \/ options.startingSize > options.maxSize))
       => /\ lastOp'.outcome \notin {"ok", "awaiting"}
          /\ options.maxSize <= 0
               => lastOp'.outcome = "Max size must be greater than 0"
          /\ (options.maxSize > 0 /\ options.startingSize > options.maxSize)
               => lastOp'.outcome = "Max size must be greater than starting size"
          /\ (options.maxSize > 0 /\ options.startingSize <= 0)
               => lastOp'.outcome \notin Rejections
          /\ lastOp'.made = 0
          /\ sessions' = sessions
          /\ jobs' = jobs]_vars

ByGetJob == lastOp'.op \in {"getJob", "Pool.query", "Pool.execute"}

NoneReady == \A i \in DOMAIN jobs : StatusOf(sessions, jobs[i]) # READY

BusyAt == {i \in DOMAIN jobs : StatusOf(sessions, jobs[i]) = BUSY}

\* Positions of the BUSY Sessions with the fewest requests in flight
LeastLoaded ==
  {i \in BusyAt : \A k \in BusyAt :
      RunningCount(sessions, jobs[i]) <= RunningCount(sessions, jobs[k])}

C10_GetJobChoice ==
  [][ByGetJob =>
       /\ ~NoneReady =>
            \E i \in DOMAIN jobs :
              /\ StatusOf(sessions, jobs[i]) = READY
              /\ \A k \in 1..(i - 1) : StatusOf(sessions, jobs[k]) # READY
              /\ lastOp'.ret = jobs[i]
       /\ (NoneReady /\ BusyAt # {}) =>
            \E i \in LeastLoaded :
              /\ \A k \in LeastLoaded : i <= k
              /\ lastOp'.ret = jobs[i]
       /\ (lastOp'.op = "getJob" /\ (~NoneReady \/ BusyAt # {}))
            => lastOp'.outcome = "ok"]_vars

\* getJob() passed over the first Session of the pool, BUSY with two requests
\* in flight, for the second one, BUSY with one
C10_Witness ==
  /\ lastOp.op = "getJob"
  /\ lastOp.made = 0
  /\ Len(jobs) = 2
  /\ lastOp.ret = jobs[2]
  /\ RunningCount(sessions, jobs[1]) = 2
  /\ RunningCount(sessions, jobs[2]) = 1

\* The first position of the pool's collection that holds a READY Session
FirstReady ==
  CHOOSE i \in DOMAIN jobs :
    /\ StatusOf(sessions, jobs[i]) = READY
    /\ \A k \in 1..(i - 1) : StatusOf(sessions, jobs[k]) # READY

HasSpace == Cardinality(Occupied(sessions, jobs)) < options.maxSize

\* The calls of the kind op that settle as how in this step
Settles(op, how) ==
  {c \in DOMAIN calls : /\ calls[c].op = op
                        /\ calls[c].settled = "pending"
                        /\ calls'[c].settled = how}

\* The step is the success of connect() on the Session that call c awaits
ConnectSucceeds(c) ==
  /\ lastOp'.op = "response"
  /\ lastOp'.outcome = "ok"
  /\ lastOp'.who = calls[c].job
  /\ sessions[calls[c].job].status # READY
  /\ sessions'[calls[c].job].status = READY
  /\ \E l \in sessions[calls[c].job].listeners :
       l.id = lastOp'.arg /\ l.kind = "connect"

ActiveCount(ss, js) ==
  Cardinality({i \in DOMAIN js : StatusOf(ss, js[i]) \in {BUSY, READY}})

\* jobs.splice(i, 1)
Without(js, i) == SubSeq(js, 1, i - 1) \o SubSeq(js, i + 1, Len(js))

\* C13: popJob() removes the first READY Session from the pool's collection
\* and returns it, so that getActiveJobCount() drops by one; with none READY
\* it constructs one Session, leaves the collection as it is and returns the
\* Session in the step in which its connect() succeeds; that Session is at no
\* time in the collection.
C13_PopJob ==
  [][/\ lastOp'.op = "popJob" =>
          /\ ~NoneReady =>
               /\ lastOp'.outcome = "ok"
               /\ lastOp'.ret = jobs[FirstReady]
               /\ jobs' = Without(jobs, FirstReady)
               /\ ActiveCount(sessions', jobs') = ActiveCount(sessions, jobs) - 1
               /\ lastOp'.made = 0
               /\ sessions' = sessions /\ calls' = calls
          /\ NoneReady =>
               /\ lastOp'.outcome = "awaiting"
               /\ lastOp'.made = 1
               /\ Len(sessions') = Len(sessions) + 1
               /\ jobs' = jobs
               /\ lastOp'.ret = Len(sessions')
               /\ Len(calls') = Len(calls) + 1
               /\ calls'[Len(calls')].job = Len(sessions')
               /\ calls'[Len(calls')].settled = "pending"
     /\ \A c \in Settles("popJob", "resolved") : ConnectSucceeds(c)
     /\ \A c \in DOMAIN calls' :
          calls'[c].op = "popJob" =>
            \A i \in DOMAIN jobs' : jobs'[i] # calls'[c].job]_vars

\* A popJob() on a pool whose only Session is BUSY has just returned a new
\* READY Session, and the pool's collection still holds the BUSY one alone
C13_Witness ==
  /\ lastOp.op = "response"
  /\ Len(jobs) = 1
  /\ RunningCount(sessions, jobs[1]) > 0
  /\ \E c \in DOMAIN calls :
       /\ calls[c].op = "popJob"
       /\ calls[c].settled = "resolved"
       /\ calls[c].job = lastOp.who
       /\ calls[c].job # jobs[1]
       /\ sessions[calls[c].job].status = READY

\* Every Pool.execute() issued has completed: none is waiting for the answer
\* to its statement or to the sqlclose that follows it
AllCompleted ==
  \A j \in DOMAIN sessions :
    \A l \in sessions[j].listeners : l.kind \notin {"execute", "sqlclose"}

\* C11: for a Pool initialised with startingSize <= maxSize and then used
\* through Pool.execute() alone, with every request answered and no channel
\* failing, getActiveJobCount() lies between startingSize and maxSize
\* whenever every execute issued has completed.
C11_ActiveWithinBounds ==
  (Initialised(sessions, jobs) /\ AllCompleted)
    => /\ ActiveCount(sessions, jobs) >= options.startingSize
       /\ ActiveCount(sessions, jobs) <= options.maxSize

\* Four executes on a pool of one Session have made it grow to two; all have
\* completed, the second Session has connected, and both are counted
C11_Witness ==
  /\ lastOp.op = "response"
  /\ options = [maxSize |-> 2, startingSize |-> 1]
  /\ Initialised(sessions, jobs)
  /\ Len(queries) = 4
  /\ AllCompleted
  /\ Len(jobs) = 2
  /\ sessions[jobs[2]].status = READY
  /\ ActiveCount(sessions, jobs) = 2

\* C14, as the specification states it: a Session that getActiveJobCount()
\* counts has completed its connect(): its stored status is not CONNECTING,
\* ENDED or NOT_STARTED.
C14_CountsOnlyUsable ==
  \A i \in DOMAIN jobs :
    StatusOf(sessions, jobs[i]) \in {BUSY, READY}
      => sessions[jobs[i]].status \notin {CONNECTING, ENDED, NOT_STARTED}

\* --------------------------------------------- claims about the Session
\* C15, as the specification states it: a stored status of ENDED is never
\* replaced by another.
C15_EndedAbsorbing ==
  [][\A j \in DOMAIN sessions :
       sessions[j].status = ENDED => sessions'[j].status = ENDED]_vars

ChannelEvents == {"open", "error", "close", "response"}

\* The channels that are open or on their way to it
Live(ss) == {k \in DOMAIN ss : ss[k].state \in {"connecting", "open"}}

\* C16: an error or close event of a channel that has opened leaves the
\* stored status of its Session ENDED; the step opens no channel, sends no
\* request and draws no id.
C16_ChannelEventDisposes ==
  [][(lastOp'.op \in {"error", "close"}
        /\ sockets[lastOp'.who].state \in {"open", "closing"})
       => /\ sessions'[sockets[lastOp'.who].job].status = ENDED
          /\ Len(sockets') = Len(sockets)
          /\ Live(sockets') \subseteq Live(sockets)
          /\ wire' \subseteq wire
          /\ uniqueIdCounter' = uniqueIdCounter]_vars

\* The open channel of a Session has just failed while a request was
\* unanswered: the Session is ENDED, its channel is closing and the request
\* is still waiting
C16_Witness ==
  /\ lastOp.op = "error"
  /\ sessions[sockets[lastOp.who].job].status = ENDED
  /\ sockets[lastOp.who].state = "closing"
  /\ sessions[sockets[lastOp.who].job].listeners # {}

\* A Session whose last connect() was refused by the daemon
ConnectRefused(j) == sessions[j].status = NOT_STARTED /\ sessions[j].socket # 0

\* C17, as the specification states it: a connect response with success not
\* true closes the channel, raises an error and leaves the stored status
\* NOT_STARTED, and no later event of a channel changes that status.
C17_RefusedStaysNotStarted ==
  [][\A j \in DOMAIN sessions :
       /\ (sessions[j].status # NOT_STARTED /\ sessions'[j].status = NOT_STARTED)
            => /\ lastOp'.op = "response"
               /\ lastOp'.outcome = "Failed to connect to server."
               /\ sockets'[sessions'[j].socket].state \notin {"connecting", "open"}
       /\ (ConnectRefused(j) /\ lastOp'.op \in ChannelEvents)
            => sessions'[j].status = NOT_STARTED]_vars

\* C18: dispose() raises nothing and leaves the stored status ENDED and the
\* Session's channel, if it has one, closing or closed; a second call changes
\* nothing.
C18_DisposeIdempotent ==
  \A j \in DOMAIN sessions :
    LET h1 == dispose(Cur, j)
        h2 == dispose(h1, j)
    IN /\ h1.out = "ok"
       /\ h1.sessions[j].status = ENDED
       /\ h1.sessions[j].socket # 0
            => h1.sockets[h1.sessions[j].socket].state \in {"closing", "closed"}
       /\ h2 = h1

\* The owner has called close() on a Session that the close event of its
\* channel had already disposed
C18_Witness ==
  /\ lastOp.op = "dispose"
  /\ lastOp.outcome = "ok"
  /\ sessions[lastOp.who].status = ENDED
  /\ sessions[lastOp.who].socket # 0
  /\ sockets[sessions[lastOp.who].socket].state = "closed"

\* ------------------------------------- claims about Query, continued
\* C21: fetchMore() on a Query in NOT_YET_RUN or RUN_DONE fails with a usage
\* error, sends no request and leaves the Query's state unchanged.
C21_FetchMoreRefused ==
  [][(lastOp'.op = "fetchMore"
      /\ queries[lastOp'.who].state \in {NOT_YET_RUN, RUN_DONE})
     => /\ lastOp'.outcome =
             (IF queries[lastOp'.who].state = NOT_YET_RUN
              THEN "Statement has not yet been run"
              ELSE "Statement has already been fully run")
        /\ SendsNothing
        /\ queries' = queries]_vars

\* fetchMore() has just been refused on a Query whose rows had all been
\* fetched
C21_Witness ==
  /\ lastOp.op = "fetchMore"
  /\ lastOp.outcome = "Statement has already been fully run"
  /\ queries[lastOp.who].state = RUN_DONE
  /\ queries[lastOp.who].correlationId # ""

\* The state after the promise of a close() that sent request id has been
\* settled by the daemon's answer
closeAwaited(h, q, success, is_done) ==
  IF h.sent = "" THEN h
  ELSE messageHandler([h EXCEPT !.wire = {r \in @ : r.id # h.sent}],
                      h.queries[q].job, Message(h.sent, success, is_done))

Registered(reg) == {reg[i] : i \in DOMAIN reg}

\* C23: after Query.cleanup() has completed, every Query that was in ERROR
\* when it was called is still in the registry and every Query that was in
\* RUN_DONE has been removed from it.  (A pass that has no sqlclose to wait
\* for completes within the call.)
C23_CleanupKeepsErrors ==
  [][(lastOp'.op = "Query.cleanup" /\ lastOp'.outcome = "ok"
      /\ cleanups' = cleanups)
     => \A q \in Registered(globalQueryList) :
          /\ queries[q].state = ERROR => q \in Registered(globalQueryList')
          /\ queries[q].state = RUN_DONE => q \notin Registered(globalQueryList')]_vars

\* C24: a constructed Query is in the registry and stays in it through
\* execute(), fetchMore() and close(): only a Query.cleanup() pass removes
\* entries.  A closed (RUN_DONE) Query that is in the registry is what
\* byId() returns for its correlation id.
C24_RegistryRetains ==
  [][/\ lastOp'.op = "query" => Len(queries') \in Registered(globalQueryList')
     /\ (\/ lastOp'.op \in {"query", "execute", "fetchMore", "close"}
         \/ lastOp'.op = "response" /\ cleanups' = cleanups)
        => \A i \in DOMAIN globalQueryList :
             /\ i \in DOMAIN globalQueryList'
             /\ globalQueryList'[i] = globalQueryList[i]
     /\ \A q \in Registered(globalQueryList') :
          (queries'[q].state = RUN_DONE /\ queries'[q].correlationId # "")
          => byId([queries |-> queries', registry |-> globalQueryList'],
                  queries'[q].correlationId) = q]_vars

\* close() has just closed a Query whose cursor was open: byId() still
\* returns it for its correlation id
C24_Witness ==
  /\ lastOp.op = "close"
  /\ queries[lastOp.who].state = RUN_DONE
  /\ queries[lastOp.who].correlationId # ""
  /\ \E r \in wire : r.type = "sqlclose"
  /\ byId(Cur, queries[lastOp.who].correlationId) = lastOp.who

\* The step sends a sqlclose request for Query q
SendsClose(q) ==
  \E r \in wire' \ wire :
    r.type = "sqlclose" /\ r.cont_id = queries'[q].correlationId

\* C25: whenever a Session.execute() call settles, with a result or with a
\* raised error, the Query it created is in RUN_DONE, and a sqlclose request
\* was sent for that Query exactly when the response to the statement
\* reported is_done = false.
C25_ExecuteCloses ==
  [][\A j \in DOMAIN sessions : \A l \in sessions[j].listeners :
       (/\ lastOp'.op = "response"
        /\ lastOp'.who = j
        /\ lastOp'.arg = l.id
        /\ l.kind = "execute"
        /\ l.via = "sessionExecute")
       => /\ queries'[l.q].state = RUN_DONE
          /\ SendsClose(l.q) <=> (lastOp'.outcome = "ok" /\ ~lastOp'.result.is_done)]_vars

\* C26: execute(rowsToFetch) with a value that is not a number or is <= 0
\* fails before any request is sent and leaves the Query's state, its stored
\* row count and its correlation id as they were; a Query that has not been
\* run can be executed after the failed call.
C26_InvalidRows ==
  \A q \in DOMAIN queries, rows \in RowsArgs :
    (rows.given /\ (~rows.isNumber \/ rows.n <= 0))
    => LET h == execute(Cur, q, rows, "")
           again == execute([h EXCEPT !.out = "ok"], q, OmittedRows, "")
       IN /\ h.out = (IF rows.isNumber
                       THEN "rowsToFetch must be greater than 0"
                       ELSE "rowsToFetch must be a number")
          /\ h.wire = wire
          /\ h.sessions = sessions
          /\ h.counter = uniqueIdCounter
          /\ h.queries = queries
          /\ queries[q].state = NOT_YET_RUN
             => /\ again.out = "ok"
                /\ \E r \in again.wire \ wire : r.id = again.sent

\* execute(0) has just been refused on a Query that has not been run
C26_Witness ==
  /\ lastOp.op = "execute"
  /\ lastOp.outcome = "rowsToFetch must be greater than 0"
  /\ queries[lastOp.who].state = NOT_YET_RUN
  /\ queries[lastOp.who].rowsToFetch = DefaultRows

\* C27: the request of execute() has type cl for a CL command; otherwise
\* prepare_sql_execute exactly when parameters were given at construction,
\* an empty list included, and sql when none were given; its parameters
\* field is the list that was given, element for element.
C27_RequestType ==
  [][(lastOp'.op = "execute" /\ lastOp'.outcome = "ok")
     => LET Q == queries[lastOp'.who] IN
        \E r \in wire' \ wire :
          /\ wire' \ wire = {r}
          /\ Q.isCLCommand => r.type = "cl"
          /\ ~Q.isCLCommand =>
               /\ r.type = (IF Q.parameters.given
                            THEN "prepare_sql_execute" ELSE "sql")
               /\ r.parameters.given = Q.parameters.given
               /\ Len(r.parameters.list) = Len(Q.parameters.list)
               /\ \A i \in DOMAIN Q.parameters.list :
                    r.parameters.list[i] = Q.parameters.list[i]]_vars

\* A statement constructed with an empty list of parameters has been sent
\* as prepare_sql_execute, and one with two different parameters with both
\* of them in order
C27_Witness ==
  /\ lastOp.op = "execute"
  /\ \E r \in wire :
       /\ r.type = "prepare_sql_execute"
       /\ r.parameters = [given |-> TRUE, list |-> <<>>]
  /\ \E r \in wire :
       /\ r.type = "prepare_sql_execute"
       /\ r.parameters = [given |-> TRUE, list |-> <<2, 1>>]

\* C28: Pool.end() disposes every Session that is in the pool's collection
\* when it is called, so that the stored status of each is ENDED when it
\* returns, and it touches no Session that is not in the collection, such as
\* one that popJob() has handed out, nor the channel of such a Session.
C28_EndDisposesPooled ==
  [][lastOp'.op = "end"
     => /\ \A i \in DOMAIN jobs : sessions'[jobs[i]].status = ENDED
        /\ \A i \in DOMAIN jobs :
             sessions[jobs[i]].socket # 0
             => sockets'[sessions[jobs[i]].socket].state \notin {"connecting", "open"}
        /\ \A j \in DOMAIN sessions :
             j \notin Registered(jobs)
             => /\ sessions'[j] = sessions[j]
                /\ \A k \in DOMAIN sockets :
                     sockets[k].job = j => sockets'[k] = sockets[k]]_vars

\* end() has just disposed a pooled Session while a Session that popJob()
\* handed out to its caller is READY on an open channel
C28_Witness ==
  /\ lastOp.op = "end"
  /\ \E i \in DOMAIN jobs : sessions[jobs[i]].status = ENDED
  /\ \E c \in DOMAIN calls :
       /\ calls[c].op = "popJob"
       /\ calls[c].settled = "resolved"
       /\ calls[c].job \notin Registered(jobs)
       /\ sessions[calls[c].job].status = READY
       /\ sockets[sessions[calls[c].job].socket].state = "open"

C30_CloseRequest ==
  [][lastOp'.op = "close"
     => LET q == lastOp'.who
            Q == queries[q]
        IN IF Q.correlationId # "" /\ Q.state # RUN_DONE
           THEN /\ wire' \ wire =
                     {[sock |-> sessions[Q.job].socket,
                       id |-> getNewUniqueId(Cur, "sqlclose"),
                       type |-> "sqlclose", cont_id |-> Q.correlationId]}
                /\ queries'[q].state = RUN_DONE
           ELSE /\ SendsNothing
                /\ Q.correlationId = "" => queries'[q].state = RUN_DONE
                /\ Q.correlationId # "" => queries' = queries]_vars

\* close() has just sent the sqlclose request of a Query whose cursor was
\* open: the Query is RUN_DONE while the request is unanswered
C30_Witness ==
  /\ lastOp.op = "close"
  /\ queries[lastOp.who].state = RUN_DONE
  /\ \E r \in wire :
       /\ r.type = "sqlclose"
       /\ r.cont_id = queries[lastOp.who].correlationId
       /\ r.id = getNewUniqueId([counter |-> uniqueIdCounter - 1], "sqlclose")

StaysPending(r) ==
  /\ r \in wire'
  /\ \A j \in DOMAIN sessions : \A l \in sessions[j].listeners :
       l.id = r.id => l \in sessions'[j].listeners
  /\ \A c \in DOMAIN calls :
       calls[c].reqId = r.id => calls'[c] = calls[c]

\* C32 as stated: once the Session has been disposed and its channel told to
\* close, the waiters of the requests in flight on that channel are never
\* resolved and never rejected.
C32_DisposedNeverSettles ==
  [][\A r \in wire :
       (/\ sessions[sockets[r.sock].job].status = ENDED
        /\ sockets[r.sock].state \in {"closing", "closed"})
       => StaysPending(r)]_vars

\* C32: the waiters of the requests that are in flight when a Session is
\* disposed are never rejected, and none is resolved once the channel its
\* request went out on has closed: they and the calls awaiting them stay
\* pending from the close event of that channel on.  (An answer that arrives
\* before the close event resolves its waiter.)
C32_ClosedNeverSettles ==
  [][\A r \in wire :
       sockets'[r.sock].state = "closed"
       => StaysPending(r)]_vars

\* The channel of a disposed Session has just closed with a getVersion()
\* request in flight on it: its waiter is registered and its call pending
C32_Witness ==
  /\ lastOp.op = "close"
  /\ sessions[1].status = ENDED
  /\ \E r \in wire, c \in DOMAIN calls :
       /\ sockets[r.sock].state = "closed"
       /\ r.type = "getversion"
       /\ Waiting(sessions, 1, r.id)
       /\ calls[c].reqId = r.id
       /\ calls[c].settled = "pending"

\* ------------------------------------- claims about Query.cleanup()
\* The state after the daemon has answered the requests with the given ids
RECURSIVE answerAll(_, _)
answerAll(h, ids) ==
  IF ids = {} THEN h
  ELSE LET id == CHOOSE x \in ids : TRUE
           js == {j \in DOMAIN h.sessions :
                    \E l \in h.sessions[j].listeners : l.id = id}
           h1 == [h EXCEPT !.wire = {r \in @ : r.id # id}]
       IN answerAll(IF js = {} THEN h1
                    ELSE messageHandler(h1, CHOOSE j \in js : TRUE,
                                        Message(id, TRUE, TRUE)),
                    ids \ {id})

\* The Queries a cleanup() pass invoked now does not call close() on
NotSnapshot == {q \in Registered(globalQueryList) :
                  queries[q].state \notin {RUN_DONE, ERROR}}

\* C33 as stated: a Query that was neither RUN_DONE nor ERROR when cleanup()
\* was invoked and that is closed while the pass awaits its closes is not
\* removed from the registry by the pass.
C33_TransitionedKept ==
  \A q \in NotSnapshot :
    LET pass == cleanup(Cur) IN
    \A awaiting \in pass.cleanups \ cleanups :
      q \in Registered(answerAll(close(pass, q), awaiting).registry)

\* C33: a cleanup() pass calls close() only on the Queries that are
\* RUN_DONE or ERROR when it is invoked: every other Query is left as it is
\* and no sqlclose is sent for it.  When the pass resumes after its closes
\* have been answered it removes every Query that is RUN_DONE then: a Query
\* closed during the wait is removed by the pass, one that was not stays.
C33_PassRemovesDone ==
  \A q \in NotSnapshot :
    LET pass == cleanup(Cur) IN
    /\ pass.queries[q] = queries[q]
    /\ \A r \in pass.wire \ wire :
         r.type = "sqlclose" /\ r.cont_id # queries[q].correlationId
    /\ \A awaiting \in pass.cleanups \ cleanups :
         /\ q \in Registered(answerAll(pass, awaiting).registry)
         /\ q \notin Registered(answerAll(close(pass, q), awaiting).registry)

\* close() has just closed a Query whose cursor was open while a cleanup()
\* pass is waiting for the answer to the sqlclose of another Query
C33_Witness ==
  /\ lastOp.op = "close"
  /\ queries[lastOp.who].state = RUN_DONE
  /\ lastOp.who \in Registered(globalQueryList)
  /\ \E r \in wire :
       /\ r.type = "sqlclose"
       /\ r.cont_id = queries[lastOp.who].correlationId
       /\ r.id = getNewUniqueId([counter |-> uniqueIdCounter - 1], "sqlclose")
       /\ \E awaiting \in cleanups : awaiting # {} /\ r.id \notin awaiting

\* ------------------------------------------------ claims about ids
\* Every id getNewUniqueId() can have returned while the counter went up to n
IssuedUpTo(n) == {p \o ToString(i) : p \in Prefixes, i \in 1..n}

\* The ids of the requests that are waited for or on their way
InFlight(ss, w) ==
  UNION {{l.id : l \in ss[j].listeners} : j \in DOMAIN ss} \cup {r.id : r \in w}

\* The ids of the Sessions
SessionIds(ss) == {ss[j].uniqueId : j \in DOMAIN ss}

C35_ReturnsConnected ==
  [][(ByGetJob /\ lastOp'.ret # 0)
     => sessions[lastOp'.ret].status = READY]_vars

\* C36: getJob() always returns a Session and never throws, and Pool.query()
\* and Pool.execute() never fail for lack of a selected Session.
C36_AlwaysReturns ==
  [][ByGetJob
     => /\ lastOp'.outcome # "TypeError"
        /\ lastOp'.ret # 0]_vars

\* C37: once connect() has been called again on a Session, an error or close
\* event of an earlier channel neither changes the Session's stored status
\* nor touches any other channel.
C37_StaleChannelIgnored ==
  [][\A k \in DOMAIN sockets :
       (/\ lastOp'.op \in {"error", "close"}
        /\ lastOp'.who = k
        /\ \E k2 \in DOMAIN sockets :
             k2 > k /\ sockets[k2].job = sockets[k].job)
       => /\ sessions'[sockets[k].job].status = sessions[sockets[k].job].status
          /\ \A k2 \in DOMAIN sockets : k2 # k => sockets'[k2] = sockets[k2]]_vars

\* C38: once the connect of a Session of the pool has failed, because its
\* channel could not be opened or because the daemon refused the connect
\* request, the Session's status is ENDED or NOT_STARTED: hasSpace() does
\* not count it and cleanup() removes it.
C38_FailedConnectFreesCapacity ==
  [][\A k \in DOMAIN sockets :
       LET j == sockets[k].job IN
       (\/ /\ lastOp'.op = "error"
           /\ lastOp'.who = k
           /\ sockets[k].state = "connecting"
        \/ /\ lastOp'.op = "response"
           /\ lastOp'.who = j
           /\ lastOp'.outcome = "Failed to connect to server."
           /\ sessions[j].socket = k)
       => /\ StatusOf(sessions', j) \in INVALID_STATES
          /\ j \notin Registered(
                 poolCleanup([jobs |-> jobs', sessions |-> sessions']).jobs)]_vars

\* C39: a Query sends at most one statement request: an execute() that sends
\* finds the Query in NOT_YET_RUN with no statement request of its own
\* unanswered.
C39_OneStatementRequest ==
  [][(lastOp'.op = "execute" /\ lastOp'.outcome = "ok")
     => /\ queries[lastOp'.who].state = NOT_YET_RUN
        /\ \A l \in sessions[queries[lastOp'.who].job].listeners :
             ~(l.kind = "execute" /\ l.q = lastOp'.who)]_vars

\* C40: on a channel that stays open to a daemon that answers every request,
\* a Session with requests in flight eventually has none, so that every
\* send() has settled, and then reports READY.
C40_EverySendSettles ==
  (getRunningCount(Cur, 1) > 0)
    ~> (getRunningCount(Cur, 1) = 0 /\ getStatus(Cur, 1) = READY)

\* The last of several requests in flight has been answered: the Session
\* has none left and reports READY, and a Query has run to its end.
C40_Witness ==
  /\ lastOp.op = "response"
  /\ uniqueIdCounter >= 4
  /\ getRunningCount(Cur, 1) = 0
  /\ getStatus(Cur, 1) = READY
  /\ \E q \in DOMAIN queries : queries[q].state = RUN_DONE

====
